---- MODULE Spec2Model ----
(***************************************************************************)
(* YKMarketShift (src/app.py): the profile-building and scoring pipeline.  *)
(*                                                                         *)
(* Number representation.  The program computes in binary floating point;  *)
(* the model computes in exact fixed point:                                *)
(*   gdp_growth, exports_pct_gdp, logistics, gii, epi : tenths (4.5 -> 45) *)
(*   gdp_per_capita, population                       : units              *)
(*   tanh, sub-scores, raw*100                        : millionths         *)
(*   suitability                                      : 10^-8              *)
(* The input grids are chosen so that on every grid point the fixed-point  *)
(* result equals the floating-point result of the program (the grids avoid *)
(* inputs whose real-valued raw*100 is an exact integer, where the binary  *)
(* rounding of 0.35*x etc. decides the truncation).                        *)
(***************************************************************************)
EXTENDS Integers, Sequences, FiniteSets, TLC

VARIABLES
    \* --- compute_risk applied to drawn inputs (SpecRisk)
    rProfile,   \* the profile handed to compute_risk
    rScore,     \* <<>> before the call, <<score>> after it
    rPrev,      \* <<>> or <<[profile, score]>>: the call before this one
    \* --- one run of build_profile_for_country's body, nothing cached (SpecBuild)
    bCountry,   \* country_name
    bRest,      \* what GET restcountries.com/v3.1/all answers
    bSeries,    \* indicator key -> what the World Bank GET answers
    bResult,    \* <<>> before the call, <<[raised, profile]>> after it
    \* --- the two rankings of the page on drawn profiles (SpecRank)
    kProfiles,  \* the profiles of the selected countries, in selection order
    kWeights,   \* the priorities [cost, risk, logistics], 0..100 each
    kAdvisor,   \* <<>>, or <<row order after sort_values>> (positions in kProfiles)
    kCase,      \* <<>>, or <<order returned by sorted()>> (positions in kProfiles)
    \* --- the page's cached calls over time (Spec)
    now,        \* the clock of the cache, in seconds
    cache,      \* st.cache_data: call key -> [value, stored]
    calls,      \* the fetcher calls of the last step, in order: [key, ret, requested]
    issued,     \* history: fetcher key -> [value, at, count]: the first request of the
                \* last hour, what it returned, and how many requests followed it
    built,      \* <<>>, or <<the last step's build_profile_for_country call>>
    origin      \* history: country -> the run of the body whose profile is cached

varsRisk == <<rProfile, rScore, rPrev>>
varsBuild == <<bCountry, bRest, bSeries, bResult>>
varsRank == <<kProfiles, kWeights, kAdvisor, kCase>>
varsCache == <<now, cache, calls, issued, built, origin>>
vars == <<varsRisk, varsBuild, varsRank, varsCache>>

\* the variables of the other specifications, at rest
IdleRisk == rProfile = <<>> /\ rScore = <<>> /\ rPrev = <<>>
IdleBuild == bCountry = "" /\ bRest = <<>> /\ bSeries = <<>> /\ bResult = <<>>
IdleRank == kProfiles = <<>> /\ kWeights = <<>> /\ kAdvisor = <<>> /\ kCase = <<>>
IdleCache ==
    now = 0 /\ cache = <<>> /\ calls = <<>> /\ issued = <<>> /\ built = <<>> /\ origin = <<>>

(***************************************************************************)
(* Python values                                                           *)
(***************************************************************************)
\* Python's None in a numeric slot, and pandas' float NaN: two values outside
\* the range of every number of the model.
NoneNum == -(2^30)
NaNNum == -(2^30) - 1
\* Python's None in a string slot.
NoneStr == "<None>"

IsNum(x) == x # NoneNum /\ x # NaNNum

\* bool(x) of a numeric slot: None and 0 are falsy, NaN and other numbers truthy
TruthyNum(x) == x # NoneNum /\ x # 0
\* bool(x) of a string slot
TruthyStr(s) == s # NoneStr /\ s # ""

\* dict.get(key, default)
Get(d, key, default) == IF key \in DOMAIN d THEN d[key] ELSE default

Max(a, b) == IF a >= b THEN a ELSE b
Min(a, b) == IF a <= b THEN a ELSE b

\* one, in millionths
Micro == 10^6

(***************************************************************************)
(* compute_risk                                                            *)
(***************************************************************************)
\* np.tanh(gdp_per_capita / 50000) in millionths, rounded to nearest, on the
\* gdp_per_capita values the model uses.
TanhMicro(g) ==
    CASE g = 0 -> 0
      [] g = 800 -> 15999
      [] g = 2500 -> 49958
      [] g = 3200 -> 63913
      [] g = 4800 -> 95706
      [] g = 5000 -> 99668
      [] g = 9800 -> 193528
      [] g = 10000 -> 197375
      [] g = 12000 -> 235496
      [] g = 40000 -> 664037
      [] g = 65000 -> 861723
      [] g = 1000000000 -> 1000000

\* weights=None: {"exports":0.35,"growth":0.25,"logistics":0.25,"gdp_pc":0.15},
\* in hundredths
DefaultRiskWeights == [exports |-> 35, growth |-> 25, logistics |-> 25, gdp_pc |-> 15]

\* np.clip(x, lo, hi)
Clip(x, lo, hi) == Min(Max(x, lo), hi)

\* int(np.clip(raw*100, 1, 99)) with raw*100 in millionths: the clip, then the
\* truncation toward zero (of a value >= 1, so the floor)
ScoreOfRawNoClip(rawMicro) == rawMicro \div Micro
ScoreOfRaw(rawMicro) == Clip(rawMicro, 1 * Micro, 99 * Micro) \div Micro

\* exp = profile.get('exports_pct_gdp', 20) / 100.0          (millionths)
ExportsTerm(profile) == Get(profile, "exports_pct_gdp", 200) * 1000
\* growth = max(min((5 - gdp_growth)/10, 1), 0)
GrowthTerm(profile) ==
    Max(Min((50 - Get(profile, "gdp_growth", 30)) * 10000, Micro), 0)
\* logistics = max(min((5 - logistics)/4, 1), 0)
LogisticsTermRising(profile) ==
    Max(Min((Get(profile, "logistics", 30) - 10) * 25000, Micro), 0)
LogisticsTerm(profile) ==
    Max(Min((50 - Get(profile, "logistics", 30)) * 25000, Micro), 0)
\* gdp_pc_norm = 1 - np.tanh(gdp_per_capita/50000)
GdpPcNorm(profile) == Micro - TanhMicro(Get(profile, "gdp_per_capita", 10000))

\* raw * 100, in millionths
RawTimes100(profile, w) ==
      w.exports * ExportsTerm(profile)
    + w.growth * GrowthTerm(profile)
    + w.logistics * LogisticsTerm(profile)
    + w.gdp_pc * GdpPcNorm(profile)

\* compute_risk(profile, weights); weights = <<>> is weights=None
compute_risk(profile, weights) ==
    LET w == IF weights = <<>> THEN DefaultRiskWeights ELSE weights[1]
    IN  ScoreOfRaw(RawTimes100(profile, w))

(***************************************************************************)
(* Embedded fallback dataset and API constants                             *)
(***************************************************************************)
\* FALLBACK_DF = pd.DataFrame(FALLBACK).set_index('country')
FALLBACK_DF ==
    [c \in {"China", "India", "Vietnam", "Mexico", "United States"} |->
       CASE c = "China" ->
              [iso3 |-> "CHN", population |-> 1411778724, gdp_growth |-> 45,
               exports_pct_gdp |-> 180, gdp_per_capita |-> 12000, logistics |-> 33,
               gii |-> 501, epi |-> 602, currency |-> "CNY"]
         [] c = "India" ->
              [iso3 |-> "IND", population |-> 1410000000, gdp_growth |-> 67,
               exports_pct_gdp |-> 123, gdp_per_capita |-> 2500, logistics |-> 30,
               gii |-> 354, epi |-> 421, currency |-> "INR"]
         [] c = "Vietnam" ->
              [iso3 |-> "VNM", population |-> 98168229, gdp_growth |-> 61,
               exports_pct_gdp |-> 1005, gdp_per_capita |-> 3200, logistics |-> 34,
               gii |-> 305, epi |-> 509, currency |-> "VND"]
         [] c = "Mexico" ->
              [iso3 |-> "MEX", population |-> 128932753, gdp_growth |-> 21,
               exports_pct_gdp |-> 386, gdp_per_capita |-> 9800, logistics |-> 36,
               gii |-> 390, epi |-> 643, currency |-> "MXN"]
         [] c = "United States" ->
              [iso3 |-> "USA", population |-> 331893745, gdp_growth |-> 23,
               exports_pct_gdp |-> 115, gdp_per_capita |-> 65000, logistics |-> 40,
               gii |-> 607, epi |-> 712, currency |-> "USD"]]

\* the keys of WORLD_BANK_INDICATORS, in the order build_profile_for_country
\* fetches them
WORLD_BANK_INDICATORS == <<"gdp_growth", "exports_pct_gdp", "gdp_per_capita">>

(***************************************************************************)
(* fetch_restcountries_df: the body under the cache                        *)
(***************************************************************************)
\* A response is [ok, js]: ok = FALSE is any exception of the try block (the
\* request, r.json(), a js that is no list of objects); js is the list of
\* country objects [name, cca3, population, currencies].

\* cur = cur_keys[0] if cur_keys else None
FirstCurrency(c) == IF Len(c.currencies) > 0 THEN c.currencies[1] ELSE NoneStr

\* rows: one per object with a truthy name
RECURSIVE RestRows(_)
RestRows(js) ==
    IF js = <<>> THEN <<>>
    ELSE LET c == Head(js)
             row == [country |-> c.name, iso3 |-> c.cca3,
                     population |-> c.population, currency |-> FirstCurrency(c)]
         IN  IF TruthyStr(c.name) THEN <<row>> \o RestRows(Tail(js))
             ELSE RestRows(Tail(js))

\* pd.DataFrame(rows): a column holding numbers and None becomes float64 and
\* its None becomes NaN; a column of None only stays object and keeps None;
\* the string columns are object and keep None.
DataFrame(rows) ==
    LET someNumber == \E i \in 1..Len(rows) : rows[i].population # NoneNum
    IN  [i \in 1..Len(rows) |->
           IF rows[i].population = NoneNum /\ someNumber
           THEN [rows[i] EXCEPT !.population = NaNNum]
           ELSE rows[i]]

\* The value returned: [none, rows]; none = TRUE is Python's None.  No row at
\* all makes dropna(subset=['country']) raise KeyError, caught as any other
\* exception.
fetch_restcountries_df(resp) ==
    IF ~resp.ok THEN [none |-> TRUE, rows |-> <<>>]
    ELSE LET rows == RestRows(resp.js)
         IN  IF rows = <<>> THEN [none |-> TRUE, rows |-> <<>>]
             ELSE [none |-> FALSE, rows |-> DataFrame(rows)]

(***************************************************************************)
(* worldbank_indicator_series: the body under the cache                    *)
(***************************************************************************)
\* A response is [kind, data]: "error" is any exception of the try block,
\* "short" a JSON that is no list of two items, "data" a list whose second item
\* is data, a sequence of [date, value] with value NoneNum for JSON null.

\* df[['date','value']].dropna()
Dropna(data) == SelectSeq(data, LAMBDA r : r.value # NoneNum)

\* df.sort_values('date'): ascending by date
RECURSIVE InsertByDate(_, _)
InsertByDate(r, sorted) ==
    IF sorted = <<>> THEN <<r>>
    ELSE IF r.date < Head(sorted).date THEN <<r>> \o sorted
    ELSE <<Head(sorted)>> \o InsertByDate(r, Tail(sorted))

RECURSIVE SortByDate(_)
SortByDate(data) ==
    IF data = <<>> THEN <<>>
    ELSE InsertByDate(data[Len(data)], SortByDate(SubSeq(data, 1, Len(data) - 1)))

\* The DataFrame returned, as its rows; <<>> is the empty frame, returned on
\* an exception, on a short JSON, and when no row has a value.
worldbank_indicator_series(resp) ==
    IF resp.kind = "data" THEN SortByDate(Dropna(resp.data)) ELSE <<>>

(***************************************************************************)
(* build_profile_for_country: the body under the cache                     *)
(***************************************************************************)
InitialProfile(country_name) ==
    [country |-> country_name, iso3 |-> NoneStr, population |-> NoneNum,
     gdp_growth |-> NoneNum, exports_pct_gdp |-> NoneNum,
     gdp_per_capita |-> NoneNum, logistics |-> 30, gii |-> 300, epi |-> 500,
     currency |-> "USD"]

\* if country_name in FALLBACK_DF.index: for k,v in fb.items(): profile[k] = v
OverlayFallback(profile) ==
    IF profile.country \in DOMAIN FALLBACK_DF
    THEN LET fb == FALLBACK_DF[profile.country]
         IN  [k \in DOMAIN profile |-> IF k \in DOMAIN fb THEN fb[k] ELSE profile[k]]
    ELSE profile

\* country_name in rest_df['country'].values
InRest(rest_df, country_name) ==
    /\ ~rest_df.none
    /\ \E i \in 1..Len(rest_df.rows) : rest_df.rows[i].country = country_name

\* rest_df[rest_df['country']==country_name].iloc[0]
Rrow(rest_df, country_name) ==
    LET i == CHOOSE i \in 1..Len(rest_df.rows) :
               /\ rest_df.rows[i].country = country_name
               /\ \A j \in 1..(i - 1) : rest_df.rows[j].country # country_name
    IN  rest_df.rows[i]

\* profile.get('population') or (rrow.get('population') or 0)
PopulationOperand(profile, rrow) ==
    IF TruthyNum(profile.population) THEN profile.population
    ELSE IF TruthyNum(rrow.population) THEN rrow.population
    ELSE 0

\* profile.get('currency') or rrow.get('currency') or "USD"
CurrencyOperand(profile, rrow) ==
    IF TruthyStr(profile.currency) THEN profile.currency
    ELSE IF TruthyStr(rrow.currency) THEN rrow.currency
    ELSE "USD"

\* profile.get('iso3') or rrow.get('iso3')
Iso3Operand(profile, rrow) ==
    IF TruthyStr(profile.iso3) THEN profile.iso3 ELSE rrow.iso3

\* The RestCountries overlay: [raised, profile].  int(NaN) raises ValueError,
\* which nothing in build_profile_for_country catches.
OverlayMetadata(profile, rest_df) ==
    IF ~InRest(rest_df, profile.country) THEN [raised |-> FALSE, profile |-> profile]
    ELSE LET rrow == Rrow(rest_df, profile.country)
             iso3 == Iso3Operand(profile, rrow)
             pop == PopulationOperand(profile, rrow)
         IN  IF pop = NaNNum
             THEN [raised |-> TRUE, profile |-> [profile EXCEPT !.iso3 = iso3]]
             ELSE [raised |-> FALSE,
                   profile |-> [profile EXCEPT !.iso3 = iso3,
                                               !.population = pop,
                                               !.currency = CurrencyOperand(profile, rrow)]]

\* iso = (profile.get('iso3') or "").lower(), as its truth value
IsoKnown(profile) == TruthyStr(profile.iso3)

\* float(df['value'].dropna().tail(1).values[0])
OldestValue(df) == df[1].value
LatestValue(df) == df[Len(df)].value

\* one try block of the enrichment: dfs[key] is what
\* worldbank_indicator_series(iso, WORLD_BANK_INDICATORS[key]) returned
EnrichOne(profile, key, dfs) ==
    IF dfs[key] # <<>> THEN [profile EXCEPT ![key] = LatestValue(dfs[key])] ELSE profile

\* if iso: the three try blocks, in order
EnrichIndicators(profile, dfs) ==
    IF IsoKnown(profile)
    THEN EnrichOne(EnrichOne(EnrichOne(profile, WORLD_BANK_INDICATORS[1], dfs),
                             WORLD_BANK_INDICATORS[2], dfs),
                   WORLD_BANK_INDICATORS[3], dfs)
    ELSE profile

\* Finalize sensible defaults if still missing
DefaultIfNone(v, d) == IF v = NoneNum THEN d ELSE v
FinalizeDefaultsGdp10000(profile) ==
    [profile EXCEPT !.gdp_growth = DefaultIfNone(@, 30),
                    !.exports_pct_gdp = DefaultIfNone(@, 200),
                    !.gdp_per_capita = DefaultIfNone(@, 10000),
                    !.population = DefaultIfNone(@, 1000000)]
FinalizeDefaults(profile) ==
    [profile EXCEPT !.gdp_growth = DefaultIfNone(@, 30),
                    !.exports_pct_gdp = DefaultIfNone(@, 200),
                    !.gdp_per_capita = DefaultIfNone(@, 5000),
                    !.population = DefaultIfNone(@, 1000000)]

\* profile['risk_score'] = compute_risk(profile, weights=None)
WithRisk(profile) == profile @@ ("risk_score" :> compute_risk(profile, <<>>))

IndicatorKeys == {WORLD_BANK_INDICATORS[i] : i \in 1..Len(WORLD_BANK_INDICATORS)}

\* The body of build_profile_for_country(country_name), given what
\* fetch_restcountries_df() and the worldbank_indicator_series calls return
\* (dfs is read only when an iso3 is known): [raised, profile]; raised = TRUE
\* is the uncaught exception and profile is then <<>>, else profile is
\* <<the dict returned>>.
build_profile_for_country(country_name, rest_df, dfs) ==
    LET p1 == OverlayFallback(InitialProfile(country_name))
        m  == OverlayMetadata(p1, rest_df)
    IN  IF m.raised THEN [raised |-> TRUE, profile |-> <<>>]
        ELSE [raised |-> FALSE,
              profile |-> <<WithRisk(FinalizeDefaults(EnrichIndicators(m.profile, dfs)))>>]

(***************************************************************************)
(* SpecBuild: build_profile_for_country on drawn source outcomes           *)
(***************************************************************************)
\* two countries of the fallback dataset, two that are not in it
BuildCountries == {"China", "United States", "France", "Atlantis"}

\* country objects of the RestCountries answer: one not in the fallback
\* dataset, with and without each field; one in it, with values that differ
\* from the fallback's; another country; an object without a name
FranceObjects ==
    [name : {"France"}, cca3 : {NoneStr, "FRA"}, population : {NoneNum, 67000000},
     currencies : {<<>>, <<"EUR", "XPF">>}]
ChinaObjects ==
    [name : {"China"}, cca3 : {"CHN"}, population : {NoneNum, 1402112000},
     currencies : {<<"CNH">>}]
OtherObjects ==
    [name : {"Germany"}, cca3 : {"DEU"}, population : {NoneNum, 83000000},
     currencies : {<<"EUR">>}]
NamelessObject ==
    [name |-> NoneStr, cca3 |-> "XXX", population |-> 5, currencies |-> <<>>]

RestResponses ==
    {[ok |-> FALSE, js |-> <<>>], [ok |-> TRUE, js |-> <<>>],
     [ok |-> TRUE, js |-> <<NamelessObject>>]}
    \cup {[ok |-> TRUE, js |-> <<e>>] : e \in FranceObjects \cup ChinaObjects}
    \cup {[ok |-> TRUE, js |-> <<e, o>>] :
            e \in FranceObjects \cup ChinaObjects, o \in OtherObjects}

\* the values a live series carries, per indicator: the newest, an older one
SeriesValues(key) ==
    CASE key = "gdp_growth" -> <<52, -13>>
      [] key = "exports_pct_gdp" -> <<255, 95>>
      [] key = "gdp_per_capita" -> <<40000, 800>>

\* World Bank answers; the API lists the newest year first
SeriesResponses(key) ==
    LET v == SeriesValues(key)
    IN  {[kind |-> "error", data |-> <<>>],
         [kind |-> "short", data |-> <<>>],
         [kind |-> "data", data |-> <<>>],
         [kind |-> "data", data |-> <<[date |-> 2022, value |-> NoneNum]>>],
         [kind |-> "data", data |-> <<[date |-> 2022, value |-> v[1]],
                                      [date |-> 2021, value |-> v[2]]>>],
         [kind |-> "data", data |-> <<[date |-> 2022, value |-> NoneNum],
                                      [date |-> 2021, value |-> v[2]]>>]}

InitBuild ==
    /\ bCountry \in BuildCountries
    /\ bRest \in RestResponses
    /\ bSeries \in {f \in [IndicatorKeys -> UNION {SeriesResponses(k) : k \in IndicatorKeys}] :
                      \A k \in IndicatorKeys : f[k] \in SeriesResponses(k)}
    /\ bResult = <<>>
    /\ IdleRisk /\ IdleRank /\ IdleCache

\* p = build_profile_for_country(c)
Build ==
    /\ bResult = <<>>
    /\ bResult' = <<build_profile_for_country(
                        bCountry, fetch_restcountries_df(bRest),
                        [k \in IndicatorKeys |-> worldbank_indicator_series(bSeries[k])])>>
    /\ UNCHANGED <<bCountry, bRest, bSeries, varsRisk, varsRank, varsCache>>

NextBuild == Build

SpecBuild == InitBuild /\ [][NextBuild]_vars

\* --- what the sources hold, read off the answers themselves
Returned == bResult # <<>> /\ ~bResult[1].raised
ReturnedProfile == bResult[1].profile[1]
InFallback == bCountry \in DOMAIN FALLBACK_DF
\* the live metadata entries for the country (none when the fetch failed)
LiveObjects ==
    IF bRest.ok THEN {bRest.js[i] : i \in {j \in 1..Len(bRest.js) : bRest.js[j].name = bCountry}}
    ELSE {}
\* the points of the live series of an indicator that carry a value
LivePoints(key) ==
    IF bSeries[key].kind = "data"
    THEN {bSeries[key].data[i] :
            i \in {j \in 1..Len(bSeries[key].data) : bSeries[key].data[j].value # NoneNum}}
    ELSE {}
\* the iso3 the sources give: the fallback's, else the live entry's
SourceIso3 ==
    IF InFallback THEN FALLBACK_DF[bCountry].iso3
    ELSE IF \E o \in LiveObjects : o.cca3 # NoneStr
         THEN (CHOOSE o \in LiveObjects : o.cca3 # NoneStr).cca3
         ELSE NoneStr
HardDefault(key) ==
    CASE key = "gdp_growth" -> 30
      [] key = "exports_pct_gdp" -> 200
      [] key = "gdp_per_capita" -> 5000
\* live indicator value > fallback dataset value > hardcoded default
ExpectedIndicator(key) ==
    IF SourceIso3 # NoneStr /\ LivePoints(key) # {}
    THEN (CHOOSE pt \in LivePoints(key) : \A q \in LivePoints(key) : q.date <= pt.date).value
    ELSE IF InFallback THEN FALLBACK_DF[bCountry][key]
    ELSE HardDefault(key)

\* C1: build_profile_for_country returns a profile without raising for every
\* country and every combination of source outcomes, and none of population,
\* gdp_growth, exports_pct_gdp, gdp_per_capita, logistics, gii, epi,
\* risk_score is missing or null in it.
RequiredNumeric ==
    {"population", "gdp_growth", "exports_pct_gdp", "gdp_per_capita",
     "logistics", "gii", "epi", "risk_score"}
Claim_C1_Total ==
    bResult # <<>> =>
        /\ ~bResult[1].raised
        /\ \A k \in RequiredNumeric :
             k \in DOMAIN ReturnedProfile /\ IsNum(ReturnedProfile[k])

\* C2: in a returned profile each of gdp_growth, exports_pct_gdp and
\* gdp_per_capita is the latest live value when a non-empty series was fetched
\* for the country's iso3, else the fallback dataset's value when the country
\* is in it, else the hardcoded default.
Thm_C2_Precedence ==
    Returned => \A k \in IndicatorKeys : ReturnedProfile[k] = ExpectedIndicator(k)
\* a country of the fallback dataset whose live gdp_growth differs from the
\* fallback's: the live value is in the profile
Wit_C2_LiveWins ==
    /\ Returned /\ bCountry = "China"
    /\ LivePoints("gdp_growth") # {}
    /\ ReturnedProfile.gdp_growth = 52
    /\ FALLBACK_DF["China"].gdp_growth = 45
    /\ LivePoints("exports_pct_gdp") = {}
    /\ ReturnedProfile.exports_pct_gdp = 180

\* C3: for a country in neither the fallback dataset nor the live metadata (or
\* with the metadata unavailable) the profile holds every documented default
\* and the risk score of exactly those defaults, which is in [1,99].
DocumentedDefaults ==
    [gdp_growth |-> 30, exports_pct_gdp |-> 200, gdp_per_capita |-> 5000,
     population |-> 1000000, logistics |-> 30, gii |-> 300, epi |-> 500,
     currency |-> "USD"]
Thm_C3_UnknownCountryDefaults ==
    (bResult # <<>> /\ ~InFallback /\ LiveObjects = {}) =>
        /\ Returned
        /\ \A k \in DOMAIN DocumentedDefaults : ReturnedProfile[k] = DocumentedDefaults[k]
        /\ ReturnedProfile.risk_score = compute_risk(DocumentedDefaults, <<>>)
        /\ ReturnedProfile.risk_score \in 1..99
\* Atlantis, built while the metadata is available and lists other countries
Wit_C3_Atlantis ==
    /\ Returned /\ bCountry = "Atlantis" /\ bRest.ok /\ Len(bRest.js) = 2
    /\ bSeries["gdp_per_capita"].data # <<>>
    /\ ReturnedProfile.risk_score = 38

\* C8: iso3, population and currency each take the first non-empty value of
\* fallback dataset, then live metadata; the default currency "USD" is used
\* only when neither source has one.
FirstNonEmptyCurrency ==
    IF InFallback THEN FALLBACK_DF[bCountry].currency
    ELSE IF \E o \in LiveObjects : o.currencies # <<>>
         THEN (CHOOSE o \in LiveObjects : o.currencies # <<>>).currencies[1]
         ELSE "USD"
Claim_C8_MetadataFirstNonEmpty ==
    Returned =>
        /\ ReturnedProfile.iso3 = SourceIso3
        /\ ReturnedProfile.currency = FirstNonEmptyCurrency
        /\ InFallback => ReturnedProfile.population = FALLBACK_DF[bCountry].population
        /\ (~InFallback /\ \E o \in LiveObjects : o.population # NoneNum) =>
              \E o \in LiveObjects : ReturnedProfile.population = o.population

\* C10: with a matching live-metadata entry that has no population, and no
\* population in the fallback dataset, the returned population is 1,000,000.
Claim_C10_PopulationDefault ==
    (bResult # <<>> /\ ~InFallback
       /\ LiveObjects # {} /\ \A o \in LiveObjects : o.population = NoneNum) =>
        Returned /\ ReturnedProfile.population = 1000000

\* C11: with a known iso3 the three indicator enrichments are independent:
\* whichever indicators' fetch or parsing fails, every other indicator with a
\* non-empty series carries its latest live value, every failed or empty one
\* keeps its fallback or default value, and the profile is returned.
FailedIndicators == {k \in IndicatorKeys : bSeries[k].kind # "data"}
KeptIndicator(key) == IF InFallback THEN FALLBACK_DF[bCountry][key] ELSE HardDefault(key)
LatestLive(key) ==
    (CHOOSE pt \in LivePoints(key) : \A q \in LivePoints(key) : q.date <= pt.date).value
Claim_C11_IndependentEnrichment ==
    (bResult # <<>> /\ SourceIso3 # NoneStr) =>
        /\ Returned
        /\ \A k \in IndicatorKeys \ FailedIndicators :
             ReturnedProfile[k] = IF LivePoints(k) # {} THEN LatestLive(k) ELSE KeptIndicator(k)
        /\ \A k \in FailedIndicators : ReturnedProfile[k] = KeptIndicator(k)


(***************************************************************************)
(* fetch_exchange_rates: the body under the cache                          *)
(***************************************************************************)
\* A response is [ok, j]: ok = FALSE is any exception of the try block; j is
\* the JSON object.  The value returned is j.get("rates", {}), {} on an
\* exception; {} is <<>>.
fetch_exchange_rates(resp) == IF resp.ok THEN Get(resp.j, "rates", <<>>) ELSE <<>>

(***************************************************************************)
(* st.cache_data(ttl=60*60)                                                *)
(***************************************************************************)
TTL == 3600

\* the key of a call: the function and its arguments
KeyRest == <<"fetch_restcountries_df">>
KeySeries(iso3, key) == <<"worldbank_indicator_series", iso3, key>>
KeyRates(base) == <<"fetch_exchange_rates", base>>
KeyProfile(country_name) == <<"build_profile_for_country", country_name>>

\* an entry is served until it is ttl seconds old
FreshTwoWindows(c, key, t) == key \in DOMAIN c /\ t - c[key].stored < 2 * TTL
Fresh(c, key, t) == key \in DOMAIN c /\ t - c[key].stored < TTL

\* the value a fetcher returns for "no data"
NoData(key, value) ==
    CASE key[1] = "fetch_restcountries_df" -> value.none
      [] key[1] = "worldbank_indicator_series" -> Len(value) = 0
      [] key[1] = "fetch_exchange_rates" -> DOMAIN value = {}

\* the value returned is stored whatever it is
Put(c, key, value, t) ==
    [k \in DOMAIN c \cup {key} |->
       IF k = key THEN [value |-> value, stored |-> t] ELSE c[k]]
MemoizeDataOnly(c, key, value, t) ==
    IF NoData(key, value) THEN c ELSE Put(c, key, value, t)
Memoize(c, key, value, t) == Put(c, key, value, t)

\* the entries still served at time t (an expired entry is never read again)
Unexpired(c, t) == [k \in {x \in DOMAIN c : Fresh(c, x, t)} |-> c[k]]

\* One call of a cached fetcher at time t: computed is what the body returns
\* if it runs.  [ret, requested]: requested = TRUE when the body ran, and with
\* it the network request.
CachedCall(c, key, t, computed) ==
    IF Fresh(c, key, t)
    THEN [key |-> key, ret |-> c[key].value, requested |-> FALSE]
    ELSE [key |-> key, ret |-> computed, requested |-> TRUE]

\* the cache after the calls of one step
RECURSIVE AfterCalls(_, _, _)
AfterCalls(c, cs, t) ==
    IF cs = <<>> THEN c
    ELSE LET call == Head(cs)
         IN  AfterCalls(IF call.requested THEN Memoize(c, call.key, call.ret, t) ELSE c,
                        Tail(cs), t)

\* history: the requests of one step, recorded.  A request for a key that
\* already has one in the last hour is counted with it.
RECURSIVE Issue(_, _, _)
Issue(h, cs, t) ==
    IF cs = <<>> THEN h
    ELSE LET call == Head(cs)
             entry == IF call.key \in DOMAIN h
                      THEN [h[call.key] EXCEPT !.count = @ + 1]
                      ELSE [value |-> call.ret, at |-> t, count |-> 1]
         IN  Issue(IF call.requested
                   THEN [k \in DOMAIN h \cup {call.key} |->
                           IF k = call.key THEN entry ELSE h[k]]
                   ELSE h,
                   Tail(cs), t)

\* history: when the oldest of the values the calls cs returned was requested
\* (now for a request, the entry's time for a value served from the cache c)
RequestedAt(c, call, t) == IF call.requested THEN t ELSE c[call.key].stored
Oldest(c, cs, t) ==
    CHOOSE a \in {RequestedAt(c, cs[i], t) : i \in 1..Len(cs)} :
        \A i \in 1..Len(cs) : a <= RequestedAt(c, cs[i], t)

(***************************************************************************)
(* Spec: the page's cached calls, one step at a time, as time passes       *)
(***************************************************************************)
\* the clock advances in steps of TickStep seconds, MaxTicks times
TickStep == 1800
MaxTicks == 3

\* the answers of the network while the page runs
PageRestResponses ==
    {[ok |-> FALSE, js |-> <<>>],
     [ok |-> TRUE,
      js |-> <<[name |-> "China", cca3 |-> "CHN", population |-> 1402112000,
                currencies |-> <<"CNY">>],
               [name |-> "France", cca3 |-> "FRA", population |-> 67000000,
                currencies |-> <<"EUR">>]>>]}
\* the indicators whose request fails during one build: none, one, or all
PageOutages == {{}, {"exports_pct_gdp"}, IndicatorKeys}
PageSeriesResponse(key, outage) ==
    IF key \in outage THEN [kind |-> "error", data |-> <<>>]
    ELSE [kind |-> "data", data |-> <<[date |-> 2022, value |-> SeriesValues(key)[1]],
                                      [date |-> 2021, value |-> SeriesValues(key)[2]]>>]
\* rates, in hundredths
PageRatesResponses ==
    {[ok |-> FALSE, j |-> <<>>],
     [ok |-> TRUE, j |-> [success |-> FALSE]],
     [ok |-> TRUE, j |-> [rates |-> [INR |-> 8300, CNY |-> 720]]]}
\* currency_base
RateBases == {"USD", "EUR"}
\* the countries the page builds profiles for
PageCountries == {"China", "France"}

Init ==
    /\ now = 0
    /\ cache = <<>>
    /\ calls = <<>>
    /\ issued = <<>>
    /\ built = <<>>
    /\ origin = <<>>
    /\ IdleRisk /\ IdleBuild /\ IdleRank

\* time passes
Tick ==
    /\ now < MaxTicks * TickStep
    /\ now' = now + TickStep
    /\ cache' = Unexpired(cache, now')
    /\ issued' = [k \in {x \in DOMAIN issued : now' - issued[x].at < TTL} |-> issued[k]]
    /\ origin' = [c \in {x \in DOMAIN origin : now' - origin[x].at < TTL} |-> origin[c]]
    /\ calls' = <<>>
    /\ built' = <<>>
    /\ UNCHANGED <<varsRisk, varsBuild, varsRank>>

\* the calls of one step take effect
Step(cs) ==
    /\ calls' = cs
    /\ issued' = Issue(issued, cs, now)
    /\ UNCHANGED <<now, varsRisk, varsBuild, varsRank>>

\* rest_df = fetch_restcountries_df()
CallRest ==
    \E resp \in PageRestResponses :
        LET call == CachedCall(cache, KeyRest, now, fetch_restcountries_df(resp))
        IN  /\ Step(<<call>>)
            /\ cache' = AfterCalls(cache, <<call>>, now)
            /\ built' = <<>>
            /\ UNCHANGED origin

\* rates = fetch_exchange_rates(base=currency_base)
CallRates ==
    \E base \in RateBases : \E resp \in PageRatesResponses :
        LET call == CachedCall(cache, KeyRates(base), now, fetch_exchange_rates(resp))
        IN  /\ Step(<<call>>)
            /\ cache' = AfterCalls(cache, <<call>>, now)
            /\ built' = <<>>
            /\ UNCHANGED origin

\* p = build_profile_for_country(c), served from the cache
BuildHit ==
    \E c \in PageCountries :
        /\ Fresh(cache, KeyProfile(c), now)
        /\ built' = <<[country |-> c, cached |-> TRUE, result |-> cache[KeyProfile(c)].value]>>
        /\ Step(<<>>)
        /\ UNCHANGED <<cache, origin>>

\* p = build_profile_for_country(c), the body run: its fetcher calls go
\* through their caches; the profile returned is stored, an exception is not
BuildMiss ==
    \E c \in PageCountries : \E resp \in PageRestResponses :
    \E outage \in PageOutages :
        LET series == [k \in IndicatorKeys |-> PageSeriesResponse(k, outage)]
            restCall == CachedCall(cache, KeyRest, now, fetch_restcountries_df(resp))
            m == OverlayMetadata(OverlayFallback(InitialProfile(c)), restCall.ret)
            fetchSeries == ~m.raised /\ IsoKnown(m.profile)
            seriesCall(k) ==
                CachedCall(cache, KeySeries(m.profile.iso3, k), now,
                           worldbank_indicator_series(series[k]))
            seriesCalls ==
                IF fetchSeries
                THEN [i \in 1..Len(WORLD_BANK_INDICATORS) |-> seriesCall(WORLD_BANK_INDICATORS[i])]
                ELSE <<>>
            dfs == [k \in IndicatorKeys |-> IF fetchSeries THEN seriesCall(k).ret ELSE <<>>]
            result == build_profile_for_country(c, restCall.ret, dfs)
            cs == <<restCall>> \o seriesCalls
            fetched == AfterCalls(cache, cs, now)
        IN  /\ ~Fresh(cache, KeyProfile(c), now)
            /\ built' = <<[country |-> c, cached |-> FALSE, result |-> result]>>
            /\ cache' = IF result.raised THEN fetched
                        ELSE Put(fetched, KeyProfile(c), result, now)
            /\ origin' = IF result.raised THEN origin
                         ELSE [x \in DOMAIN origin \cup {c} |->
                                 IF x = c
                                 THEN [result |-> result, at |-> now,
                                       oldest |-> Oldest(cache, cs, now)]
                                 ELSE origin[x]]
            /\ Step(cs)

Next == Tick \/ CallRest \/ CallRates \/ BuildHit \/ BuildMiss

Spec == Init /\ [][Next]_vars

\* C7: for each fetcher and each argument tuple the network request is issued
\* at most once per cache window of one hour, and every later call with the
\* same arguments inside the window returns the value the first call
\* memoized, the no-data result included, without a request.
Thm_C7_OneRequestPerWindow ==
    /\ \A k \in DOMAIN issued : issued[k].count = 1
    /\ \A i \in 1..Len(calls) :
          ~calls[i].requested =>
              /\ calls[i].key \in DOMAIN issued
              /\ now - issued[calls[i].key].at < TTL
              /\ calls[i].ret = issued[calls[i].key].value
\* a later call inside the window is served the memoized no-data result
Wit_C7_NoDataServed ==
    \E i \in 1..Len(calls) :
        /\ ~calls[i].requested
        /\ NoData(calls[i].key, calls[i].ret)
        /\ issued[calls[i].key].at < now

\* C12: a build_profile_for_country(c) call inside c's one-hour profile window
\* returns the profile built by the first call of that window and invokes no
\* fetcher, whether or not the fetcher entries it was built from have expired;
\* the fetch results it rests on are then less than two windows old.
Thm_C12_ProfileWindow ==
    \A i \in 1..Len(built) :
        built[i].cached =>
            /\ calls = <<>>
            /\ built[i].country \in DOMAIN origin
            /\ now - origin[built[i].country].at < TTL
            /\ built[i].result = origin[built[i].country].result
            /\ now - origin[built[i].country].oldest < 2 * TTL
\* France's profile is served from the cache although the metadata it was
\* built from was requested more than a window ago, and the metadata now in
\* the cache would give another profile
Wit_C12_StaleProfileServed ==
    \E i \in 1..Len(built) :
        /\ built[i].cached /\ built[i].country = "France"
        /\ now - origin["France"].oldest >= TTL
        /\ Fresh(cache, KeyRest, now)
        /\ cache[KeyRest].stored > origin["France"].at
        /\ LET m == OverlayMetadata(OverlayFallback(InitialProfile("France")),
                                    cache[KeyRest].value)
           IN  /\ ~m.raised
               /\ m.profile.iso3 # built[i].result.profile[1].iso3
               /\ m.profile.population # built[i].result.profile[1].population

(***************************************************************************)
(* Suitability and the two rankings                                        *)
(***************************************************************************)
\* cost_idx = 1 - np.tanh(float(p.get('gdp_per_capita',5000))/50000)
CostIdx(p) == Micro - TanhMicro(Get(p, "gdp_per_capita", 5000))

\* suitability = (cost/100)*(1-cost_idx) + (risk/100)*(1 - risk_score/100)
\*             + (logistics/100)*(p.logistics/5),                  in 10^-8
Suitability(p, w) ==
      w.cost * (Micro - CostIdx(p))
    + w.risk * (100 - Get(p, "risk_score", 50)) * 10000
    + w.logistics * Get(p, "logistics", 30) * 20000

\* the permutations of 1..n, as sequences
Orders(n) == {o \in [1..n -> 1..n] : \A i, j \in 1..n : i # j => o[i] # o[j]}

\* profiles_df.sort_values('suitability', ascending=False): the row orders the
\* call can return.  The default kind is quicksort, which pandas documents as
\* not stable; rows of equal suitability come out in an order that depends on
\* the numpy build (its vectorised sorts do not keep it).
sort_values(profiles, w) ==
    {o \in Orders(Len(profiles)) :
       \A i, j \in 1..Len(profiles) :
          i < j => Suitability(profiles[o[i]], w) >= Suitability(profiles[o[j]], w)}

\* sorted(temp_scores.items(), key=lambda x: x[1], reverse=True): Python's
\* sort is stable, and reverse=True keeps the order of equal keys.  Position
\* pos is inserted behind every position whose key is not smaller.
RECURSIVE InsertDescending(_, _, _, _)
InsertDescending(pos, ranked, profiles, w) ==
    IF ranked = <<>> THEN <<pos>>
    ELSE IF Suitability(profiles[Head(ranked)], w) >= Suitability(profiles[pos], w)
         THEN <<Head(ranked)>> \o InsertDescending(pos, Tail(ranked), profiles, w)
         ELSE <<pos>> \o ranked

RECURSIVE SortedPrefix(_, _, _)
SortedPrefix(n, profiles, w) ==
    IF n = 0 THEN <<>>
    ELSE InsertDescending(n, SortedPrefix(n - 1, profiles, w), profiles, w)

sorted_reverse(profiles, w) == SortedPrefix(Len(profiles), profiles, w)

(***************************************************************************)
(* SpecRank: the advisor and the case-study ranking on drawn profiles      *)
(***************************************************************************)
\* the most countries ranked at once
MaxSelected == 3

RankNames == <<"A", "B", "C", "D", "E">>
\* profiles as build_profile_for_country leaves them: the defaults with
\* gdp_per_capita and logistics varied, and the risk score of those values
RankFields ==
    [gdp_per_capita : {2500, 4800, 5000, 65000}, logistics : {30, 36},
     gdp_growth : {30}, exports_pct_gdp : {200}]
RankProfile(i, f) == WithRisk(f @@ ("country" :> RankNames[i]))
\* the sidebar defaults, the three case presets, and cost = 0
RankWeights ==
    {[cost |-> 40, risk |-> 30, logistics |-> 20],
     [cost |-> 50, risk |-> 20, logistics |-> 20],
     [cost |-> 50, risk |-> 30, logistics |-> 20],
     [cost |-> 30, risk |-> 30, logistics |-> 40],
     [cost |-> 0, risk |-> 30, logistics |-> 20]}

InitRank ==
    /\ \E n \in 2..MaxSelected : \E fs \in [1..n -> RankFields] :
          kProfiles = [i \in 1..n |-> RankProfile(i, fs[i])]
    /\ kWeights \in RankWeights
    /\ kAdvisor = <<>>
    /\ kCase = <<>>
    /\ IdleRisk /\ IdleBuild /\ IdleCache

\* recommendation = profiles_df.sort_values('suitability', ascending=False).iloc[0]
Advisor ==
    /\ kAdvisor = <<>>
    /\ \E o \in sort_values(kProfiles, kWeights) : kAdvisor' = <<o>>
    /\ UNCHANGED <<kProfiles, kWeights, kCase, varsRisk, varsBuild, varsCache>>

\* ranked = sorted(temp_scores.items(), key=lambda x: x[1], reverse=True)
CaseStudy ==
    /\ kCase = <<>>
    /\ kCase' = <<sorted_reverse(kProfiles, kWeights)>>
    /\ UNCHANGED <<kProfiles, kWeights, kAdvisor, varsRisk, varsBuild, varsCache>>

NextRank == Advisor \/ CaseStudy

SpecRank == InitRank /\ [][NextRank]_vars

\* the rankings computed so far
Rankings == {r[1] : r \in {x \in {kAdvisor, kCase} : x # <<>>}}
\* the place of position i of the selection in ranking o
PlaceIn(o, i) == CHOOSE k \in 1..Len(o) : o[k] = i

\* C6: of two countries whose profiles are identical except for
\* gdp_per_capita, under priorities with cost > 0, the one with the lower
\* gdp_per_capita is never ranked below the other.
IdenticalExceptGdp(p, q) ==
    \A f \in DOMAIN p \ {"country", "gdp_per_capita"} : p[f] = q[f]
Claim_C6_LowerGdpNotBelow ==
    \A o \in Rankings : \A i, j \in 1..Len(kProfiles) :
        (/\ kWeights.cost > 0
         /\ IdenticalExceptGdp(kProfiles[i], kProfiles[j])
         /\ kProfiles[i].gdp_per_capita < kProfiles[j].gdp_per_capita)
        => PlaceIn(o, i) < PlaceIn(o, j)

\* C9: a ranking orders the profiles by suitability descending and keeps the
\* selection order of profiles of equal suitability; so the top pick among
\* tied-best countries is the one selected first.
Claim_C9_StableRanking ==
    \A o \in Rankings : \A a, b \in 1..Len(o) :
        a < b =>
            \/ Suitability(kProfiles[o[a]], kWeights) > Suitability(kProfiles[o[b]], kWeights)
            \/ /\ Suitability(kProfiles[o[a]], kWeights) = Suitability(kProfiles[o[b]], kWeights)
               /\ o[a] < o[b]


(***************************************************************************)
(* SpecRisk: compute_risk on drawn profiles                                *)
(***************************************************************************)
\* exports_pct_gdp in tenths: negative, small, the fallback values, very large
RiskExports == {-500, 1, 115, 123, 180, 386, 1005, 3000}
\* gdp_growth in tenths: below the clamp, inside it, at 5.0 and above it
RiskGrowth == {-60, -20, 21, 30, 45, 50, 67}
\* logistics in tenths: at 1.0 and below, the fallback values, 5.0 and above
RiskLogistics == {5, 10, 33, 34, 40, 50, 55}
\* gdp_per_capita: the extremes 0 and 10^9 among ordinary values
RiskGdpPc == {0, 2500, 5000, 12000, 65000, 1000000000}

RiskProfiles ==
    [exports_pct_gdp : RiskExports, gdp_growth : RiskGrowth,
     logistics : RiskLogistics, gdp_per_capita : RiskGdpPc]

InitRisk ==
    /\ rProfile \in RiskProfiles
    /\ rScore = <<>>
    /\ rPrev = <<>>
    /\ IdleBuild /\ IdleRank /\ IdleCache

\* score = compute_risk(profile)
Score ==
    /\ rScore = <<>>
    /\ rScore' = <<compute_risk(rProfile, <<>>)>>
    /\ UNCHANGED <<rProfile, rPrev, varsBuild, varsRank, varsCache>>

\* a second profile that differs from the scored one in one field only, scored
ScoreVariant(field) ==
    /\ rScore # <<>>
    /\ rPrev = <<>>
    /\ \E v \in RiskProfiles :
         /\ v # rProfile
         /\ \A f \in DOMAIN v : f # field => v[f] = rProfile[f]
         /\ rPrev' = <<[profile |-> rProfile, score |-> rScore[1]]>>
         /\ rProfile' = v
         /\ rScore' = <<compute_risk(v, <<>>)>>
    /\ UNCHANGED <<varsBuild, varsRank, varsCache>>

NextRisk ==
    \/ Score
    \/ ScoreVariant("exports_pct_gdp")
    \/ ScoreVariant("logistics")
    \/ ScoreVariant("gdp_per_capita")

SpecRisk == InitRisk /\ [][NextRisk]_vars

\* C4: compute_risk returns an integer in [1,99] for every profile of finite
\* numbers, the extremes included; never 0, never 100.
Thm_C4_RiskInRange == rScore # <<>> => rScore[1] \in 1..99
\* both ends of the clamp are reached at gdp_per_capita = 10^9: 1 with negative
\* exports, 99 with very large ones
Wit_C4_Extremes ==
    /\ rPrev # <<>>
    /\ rPrev[1].profile.gdp_per_capita = 1000000000
    /\ rPrev[1].profile.exports_pct_gdp < 0
    /\ rPrev[1].score = 1
    /\ rProfile.exports_pct_gdp = 3000
    /\ rScore = <<99>>

\* C5: of two profiles that differ only in exports_pct_gdp the one with the
\* larger value scores not lower; of two that differ only in logistics the
\* one with the larger value scores not higher.
DiffersOnlyIn(p, q, field) ==
    p[field] # q[field] /\ \A f \in DOMAIN p : f # field => p[f] = q[f]
Thm_C5_Monotonic ==
    rPrev # <<>> =>
        LET p == rPrev[1].profile
            ps == rPrev[1].score
        IN  /\ DiffersOnlyIn(p, rProfile, "exports_pct_gdp") =>
                  /\ p.exports_pct_gdp < rProfile.exports_pct_gdp => ps <= rScore[1]
                  /\ p.exports_pct_gdp > rProfile.exports_pct_gdp => ps >= rScore[1]
            /\ DiffersOnlyIn(p, rProfile, "logistics") =>
                  /\ p.logistics < rProfile.logistics => ps >= rScore[1]
                  /\ p.logistics > rProfile.logistics => ps <= rScore[1]
\* better logistics, strictly lower score
Wit_C5_LogisticsLowers ==
    /\ rPrev # <<>>
    /\ DiffersOnlyIn(rPrev[1].profile, rProfile, "logistics")
    /\ rPrev[1].profile.logistics < rProfile.logistics
    /\ rScore[1] < rPrev[1].score

====
